---- MODULE Spec2Model ----
(***************************************************************************)
(* A model of PyCliTetris (src/PyCliTetris.py): the playfield matrix, the  *)
(* falling tetromino, the seven-bag and the main loop.                     *)
(*                                                                         *)
(* Python lists are modelled as sequences; a Python index i of a list of   *)
(* length n addresses element PyIndex(i, n) + 1 of the sequence, a         *)
(* negative i counting from the end, and an index outside -n .. n-1        *)
(* raises IndexError.  A playfield cell holds False or a ColorChar; only   *)
(* its truth value is kept.                                                *)
(*                                                                         *)
(* One call of Tetromino.process is a walk of pc through                   *)
(*   "process" -> "rotate" -> "drop" -> ("dropping" | "gravity") -> "check"*)
(* and the values the InputController hands out (take_dx, take_up,         *)
(* take_down) and GameTimer.should_do_gravity are the inputs of the steps. *)
(***************************************************************************)
EXTENDS Integers, Sequences, FiniteSets, TLC

\* The playfield of the game specification (main builds Vector(10, 20)).
Width == 3
Height == 4
\* Number of tetrominos the main loop takes from the bag.
MaxPieces == 2
\* The playfield of the specification that applies Playfield.land alone.
LandWidth == 2
LandHeight == 4
\* Number of SevenBag draws of the bag specification.
MaxDraws == 14
\* The point sequences of the rotation specification: their greatest length
\* and the greatest absolute value of a coordinate.
MaxPoints == 2
MaxCoord == 2
\* Score.add alone: the greatest absolute value of its argument and the
\* score from which it is called no more.
MaxLines == 6
MaxScore == 1000
\* The count of draws after the last draw of a kind is kept up to MaxGap.
MaxGap == 14

VARIABLES
    size,              \* Playfield.size
    playfieldContent,  \* Playfield.playfieldContent, rows top to bottom
    topped_out,        \* Playfield.topped_out
    score,             \* Score._value
    kind,              \* the class of the current tetromino
    position,          \* Tetromino._position.vectors
    landed,            \* Tetromino.landed
    bag,               \* SevenBag._bag, as the kinds of its tetrominos
    pc,                \* where main / Tetromino.process stands
    gravityDue,        \* the should_do_gravity argument of this process call
    nPieces,           \* tetrominos taken from the bag by main
    ev,                \* history: the last step taken and its inputs
    tick,              \* history: position at the start of process / of _drop
    lastLand,          \* history: the last call of Playfield.land
    landCalls,         \* history: calls of Playfield.land for this tetromino
    window,            \* history: draws since the last multiple of seven
    nDraws,            \* history: calls of SevenBag.get_tetromino
    keys,              \* InputController._keys
    pressed,           \* the keyboard: what is_pressed(key) returns
    taken,             \* history: the keys the last take_* call reported
    trail,             \* history: per key, what update has read of it
    since              \* history: per kind, the draws after its last draw

\* The InputController, the keyboard and their history.
inputVars == <<keys, pressed, taken, trail>>

vars == <<size, playfieldContent, topped_out, score, kind, position, landed,
          bag, pc, gravityDue, nPieces, ev, tick, lastLand, landCalls,
          window, nDraws, inputVars, since>>

----------------------------------------------------------------------------
\* Vector and Vectors

Vector(x, y) == [x |-> x, y |-> y]

add_xy(v, dx, dy) == Vector(v.x + dx, v.y + dy)

\* rotate90 with line 35 as two assignments in turn: yRotated takes the
\* value xRotated has just been given.
rotate90_assigned_in_turn(v, anchor) ==
    LET yr == v.y - anchor.y
    IN  Vector((0 - yr) + anchor.x, (0 - yr) + anchor.y)

rotate90(v, anchor) ==
    LET xr == v.x - anchor.x
        yr == v.y - anchor.y
    IN  Vector((0 - yr) + anchor.x, xr + anchor.y)

translate_all(vectors, t) ==
    [i \in 1..Len(vectors) |-> add_xy(vectors[i], t.x, t.y)]

get_rotated90_around_anchor(vectors) ==
    [i \in 1..Len(vectors) |->
        IF i = 1 THEN vectors[1] ELSE rotate90(vectors[i], vectors[1])]

----------------------------------------------------------------------------
\* Python list indexing

PyIndex(i, n) == IF i < 0 THEN i + n ELSE i

IndexOK(i, n) == (0 - n) <= i /\ i < n

PyRow(content, y) == content[PyIndex(y, Len(content)) + 1]

PyCell(content, y, x) ==
    LET row == PyRow(content, y) IN row[PyIndex(x, Len(row)) + 1]

PyPop(list, i) ==
    LET k == PyIndex(i, Len(list)) + 1
    IN  [j \in 1..(Len(list) - 1) |-> IF j < k THEN list[j] ELSE list[j + 1]]

----------------------------------------------------------------------------
\* InputController.  In the game specification the values it hands out are
\* inputs of the steps and its state is left alone; the input specification
\* below runs it against a keyboard.

KeyNames == {"left", "right", "up", "down"}

\* What update has read of a key: inHold counts the reports since the key
\* went down; seen is "reported" after a report, "released" once an update
\* has then read it released, "pressed" once a later update has read it
\* pressed; fresh says an update has read it released twice and no report
\* followed; want says an update has then read it pressed twice.
NoTrail == [inHold |-> 0, seen |-> "released", fresh |-> TRUE, want |-> FALSE]

\* InputController.__init__, lines 186-192, with no key down.
InputIdle ==
    /\ keys = [k \in KeyNames |-> 0]
    /\ pressed = [k \in KeyNames |-> FALSE]
    /\ taken = {}
    /\ trail = [k \in KeyNames |-> NoTrail]

\* update that arms a key whenever it is read pressed (line 196 without
\* the test of 0).
update_arms_held(ks, read1, read2) ==
    LET armed == [k \in KeyNames |-> IF read1[k] THEN 1 ELSE ks[k]]
    IN  [k \in KeyNames |-> IF ~read2[k] /\ armed[k] = 2 THEN 0 ELSE armed[k]]

\* InputController.update, lines 194-201: read1 is what is_pressed returns
\* in the first loop, read2 what it returns in the second.
update(ks, read1, read2) ==
    LET armed == [k \in KeyNames |-> IF read1[k] /\ ks[k] = 0 THEN 1 ELSE ks[k]]
    IN  [k \in KeyNames |-> IF ~read2[k] /\ armed[k] = 2 THEN 0 ELSE armed[k]]

\* InputController.take_dx, lines 203-214: the value returned, what each key
\* added to it, and _keys afterwards.
take_dx(ks) ==
    LET left  == IF ks["left"] = 1 THEN -1 ELSE 0
        right == IF ks["right"] = 1 THEN 1 ELSE 0
    IN  [dx |-> left + right, left |-> left, right |-> right,
         keys |-> [ks EXCEPT !["left"]  = IF @ = 1 THEN 2 ELSE @,
                             !["right"] = IF @ = 1 THEN 2 ELSE @]]

\* InputController.take_up, lines 216-221.
take_up(ks) ==
    [value |-> ks["up"] = 1,
     keys |-> [ks EXCEPT !["up"] = IF @ = 1 THEN 2 ELSE @]]

\* InputController.take_down, lines 223-228.
take_down(ks) ==
    [value |-> ks["down"] = 1,
     keys |-> [ks EXCEPT !["down"] = IF @ = 1 THEN 2 ELSE @]]

----------------------------------------------------------------------------
\* Score

\* ScoreAddRaises with the chain of tests ending in lines <= 0.
ScoreAddRaisesAboveFour(lines) == lines > 4

ScoreAddRaises(lines) == lines \notin 0..4

\* ScoreAdd with the award of three lines where four were cleared.
ScoreAddThreeForFour(value, lines) ==
    CASE lines = 4 -> value + 500
      [] lines = 3 -> value + 500
      [] lines = 2 -> value + 300
      [] lines = 1 -> value + 100
      [] OTHER     -> value

ScoreAdd(value, lines) ==
    CASE lines = 4 -> value + 800
      [] lines = 3 -> value + 500
      [] lines = 2 -> value + 300
      [] lines = 1 -> value + 100
      [] OTHER     -> value

----------------------------------------------------------------------------
\* Playfield

EmptyRow(sz) == [x \in 1..sz.x |-> FALSE]

EmptyContent(sz) == [y \in 1..sz.y |-> EmptyRow(sz)]

\* Lines 307-310: True when one of the writes raises IndexError.
LandWriteRaises(content, vectors) ==
    \E i \in 1..Len(vectors) :
        \/ ~IndexOK(vectors[i].y, Len(content))
        \/ ~IndexOK(vectors[i].x, Len(content[1]))

RECURSIVE LandWrite(_, _, _)
LandWrite(content, vectors, i) ==
    IF i > Len(vectors) THEN content
    ELSE LET v == vectors[i]
             r == PyIndex(v.y, Len(content)) + 1
             c == PyIndex(v.x, Len(content[r])) + 1
         IN  LandWrite([content EXCEPT ![r][c] = TRUE], vectors, i + 1)

RECURSIVE RowsToScan(_, _, _)
RowsToScan(vectors, i, acc) ==
    IF i > Len(vectors) THEN acc
    ELSE RowsToScan(vectors, i + 1,
                    IF \E j \in 1..Len(acc) : acc[j] = vectors[i].y
                    THEN acc ELSE Append(acc, vectors[i].y))

HitCount(row) == Cardinality({x \in 1..Len(row) : row[x]})

\* RowsToRemove with the test of line 320 as hitCount > size.x.
RowsToRemoveAboveWidth(content, vectors, sz) ==
    LET rowsToScan == SortSeq(RowsToScan(vectors, 1, <<>>), <)
    IN  SelectSeq(rowsToScan, LAMBDA r : HitCount(PyRow(content, r)) > sz.x)

RowsToRemove(content, vectors, sz) ==
    LET rowsToScan == SortSeq(RowsToScan(vectors, 1, <<>>), <)
    IN  SelectSeq(rowsToScan, LAMBDA r : HitCount(PyRow(content, r)) >= sz.x)

\* PopRows in ascending order of the rows (line 324 without [::-1]).
RECURSIVE PopRowsAscending(_, _, _)
PopRowsAscending(content, rowsToRemove, i) ==
    IF i < 1 THEN content
    ELSE PopRowsAscending(PyPop(content, rowsToRemove[Len(rowsToRemove) - i + 1]),
                          rowsToRemove, i - 1)

RECURSIVE PopRows(_, _, _)
PopRows(content, rowsToRemove, i) ==
    IF i < 1 THEN content
    ELSE PopRows(PyPop(content, rowsToRemove[i]), rowsToRemove, i - 1)

\* InsertRows with one empty row for the rows removed, however many.
InsertRowsOnce(content, n, sz) ==
    IF n = 0 THEN content ELSE <<EmptyRow(sz)>> \o content

RECURSIVE InsertRows(_, _, _)
InsertRows(content, n, sz) ==
    IF n = 0 THEN content
    ELSE InsertRows(<<EmptyRow(sz)>> \o content, n - 1, sz)

\* Playfield.land without the score: the matrix after the writes, the rows
\* found full, and the matrix after the pops and inserts.
LandMatrix(content, vectors, sz) ==
    LET written      == LandWrite(content, vectors, 1)
        rowsToRemove == RowsToRemove(written, vectors, sz)
        popped       == PopRows(written, rowsToRemove, Len(rowsToRemove))
        result       == InsertRows(popped, Len(rowsToRemove), sz)
    IN  [written |-> written, rowsToRemove |-> rowsToRemove, content |-> result]

TopRowHit(content) == \E x \in 1..Len(content[1]) : content[1][x]

----------------------------------------------------------------------------
\* The part of the program state that Tetromino and Playfield methods change,
\* as one record, so that a method is an operator from record to record.
\* raised: an exception left the method (IndexError, ValueError).

Cur ==
    [content |-> playfieldContent, topped |-> topped_out, score |-> score,
     position |-> position, landed |-> landed, raised |-> FALSE,
     lastLand |-> lastLand, landCalls |-> landCalls]

NoLand == [vectors |-> <<>>, before |-> <<>>, written |-> <<>>,
           removed |-> 0, scoreBefore |-> 0, called |-> FALSE]

\* land with topped_out assigned from the top row in either case.
land_topped_out_assigned(s, vectors, sz) ==
    IF LandWriteRaises(s.content, vectors)
    THEN [s EXCEPT !.raised = TRUE, !.landCalls = @ + 1]
    ELSE LET r == LandMatrix(s.content, vectors, sz)
             k == Len(r.rowsToRemove)
         IN  [s EXCEPT
                !.content   = r.content,
                !.topped    = TopRowHit(r.content),
                !.score     = ScoreAdd(@, k),
                !.raised    = ScoreAddRaises(k),
                !.landCalls = @ + 1,
                !.lastLand  = [vectors |-> vectors, before |-> s.content,
                               written |-> r.written, removed |-> k,
                               scoreBefore |-> s.score, called |-> TRUE]]

\* Playfield.land(vectors, colorChar), lines 304-334.
land(s, vectors, sz) ==
    IF LandWriteRaises(s.content, vectors)
    THEN [s EXCEPT !.raised = TRUE, !.landCalls = @ + 1]
    ELSE LET r == LandMatrix(s.content, vectors, sz)
             k == Len(r.rowsToRemove)
         IN  [s EXCEPT
                !.content   = r.content,
                !.topped    = @ \/ TopRowHit(r.content),
                !.score     = ScoreAdd(@, k),
                !.raised    = ScoreAddRaises(k),
                !.landCalls = @ + 1,
                !.lastLand  = [vectors |-> vectors, before |-> s.content,
                               written |-> r.written, removed |-> k,
                               scoreBefore |-> s.score, called |-> TRUE]]

----------------------------------------------------------------------------
\* Tetromino

Kinds == <<"I", "J", "L", "O", "S", "Z", "T">>

KindSet == {Kinds[i] : i \in 1..Len(Kinds)}

\* The constructors Tetromino_I .. Tetromino_T, lines 410-474.
Spawn(k, sz) ==
    LET half == sz.x \div 2
        at(ay, o1, o2, o3) ==
            LET anchor == Vector(half, ay)
            IN  <<anchor, add_xy(anchor, o1[1], o1[2]),
                  add_xy(anchor, o2[1], o2[2]), add_xy(anchor, o3[1], o3[2])>>
    IN  CASE k = "I" -> at(2, <<0, -2>>, <<0, -1>>, <<0, 1>>)
          [] k = "J" -> at(0, <<-1, 0>>, <<1, 0>>, <<1, 1>>)
          [] k = "L" -> at(1, <<-1, 0>>, <<1, 0>>, <<1, -1>>)
          [] k = "O" -> at(0, <<1, 0>>, <<0, 1>>, <<1, 1>>)
          [] k = "S" -> at(0, <<-1, 1>>, <<0, 1>>, <<1, 0>>)
          [] k = "Z" -> at(0, <<-1, 0>>, <<0, 1>>, <<1, 1>>)
          [] k = "T" -> at(1, <<-1, 0>>, <<0, -1>>, <<1, 0>>)

\* The verdict of the first block at which a validation loop stops:
\* "pass" when it runs to its end.
FirstStop(verdicts) ==
    LET stops == {i \in 1..Len(verdicts) : verdicts[i] # "pass"}
    IN  IF stops = {} THEN "pass"
        ELSE verdicts[CHOOSE i \in stops : \A j \in stops : i <= j]

\* The condition of lines 372 and 380 for one block: "return" when it is true,
\* "raise" when playfieldContent[y] is out of range, "pass" when it is false.
BlockedAt(content, sz, x, y) ==
    IF x >= sz.x \/ x < 0 THEN "return"
    ELSE IF ~IndexOK(y, Len(content)) THEN "raise"
    ELSE IF PyCell(content, y, x) THEN "return"
    ELSE "pass"

\* Tetromino._move_horizontally(dx), lines 369-375.
move_horizontally(s, dx, sz) ==
    LET verdict == FirstStop([i \in 1..Len(s.position) |->
                       BlockedAt(s.content, sz, s.position[i].x + dx,
                                 s.position[i].y)])
    IN  CASE verdict = "pass"   ->
                [s EXCEPT !.position = translate_all(@, Vector(dx, 0))]
          [] verdict = "return" -> s
          [] verdict = "raise"  -> [s EXCEPT !.raised = TRUE]

\* Tetromino._rotate(), lines 377-383, and Tetromino_O._rotate, lines 443-444.
rotate(s, k, sz) ==
    LET rotated == get_rotated90_around_anchor(s.position)
        verdict == FirstStop([i \in 1..Len(rotated) |->
                       BlockedAt(s.content, sz, rotated[i].x, rotated[i].y)])
    IN  CASE k = "O"            -> s
          [] verdict = "pass"   -> [s EXCEPT !.position = rotated]
          [] verdict = "return" -> s
          [] verdict = "raise"  -> [s EXCEPT !.raised = TRUE]

\* RestsAt with the floor test one row late (block.y >= size.y).
RestsAtFloorLate(content, sz, v) ==
    IF v.y >= sz.y THEN "land"
    ELSE IF ~IndexOK(v.y + 1, Len(content)) \/ ~IndexOK(v.x, sz.x) THEN "raise"
    ELSE IF PyCell(content, v.y + 1, v.x) THEN "land"
    ELSE "pass"

\* RestsAt that looks one row further down for an occupied cell.
RestsAtLooksTwoDown(content, sz, v) ==
    IF v.y + 1 >= sz.y THEN "land"
    ELSE IF v.y + 2 < sz.y /\ PyCell(content, v.y + 2, v.x) THEN "land"
    ELSE "pass"

\* The condition of line 394 for one block.
RestsAt(content, sz, v) ==
    IF v.y + 1 >= sz.y THEN "land"
    ELSE IF ~IndexOK(v.y + 1, Len(content)) \/ ~IndexOK(v.x, sz.x) THEN "raise"
    ELSE IF PyCell(content, v.y + 1, v.x) THEN "land"
    ELSE "pass"

\* do_gravity that calls land without setting landed (line 395 missing).
do_gravity_landed_not_set(s, sz) ==
    LET verdict == FirstStop([i \in 1..Len(s.position) |->
                       RestsAt(s.content, sz, s.position[i])])
    IN  CASE s.landed         -> s
          [] verdict = "pass"  ->
                [s EXCEPT !.position = translate_all(@, Vector(0, 1))]
          [] verdict = "land"  -> land(s, s.position, sz)
          [] verdict = "raise" -> [s EXCEPT !.raised = TRUE]

\* Tetromino._do_gravity(), lines 389-399.
do_gravity(s, sz) ==
    LET verdict == FirstStop([i \in 1..Len(s.position) |->
                       RestsAt(s.content, sz, s.position[i])])
    IN  CASE s.landed         -> s
          [] verdict = "pass"  ->
                [s EXCEPT !.position = translate_all(@, Vector(0, 1))]
          [] verdict = "land"  ->
                land([s EXCEPT !.landed = TRUE], s.position, sz)
          [] verdict = "raise" -> [s EXCEPT !.raised = TRUE]

----------------------------------------------------------------------------
\* SevenBag

new_bag == Kinds

\* No tetromino has been taken from the bag.
NoDraws == [k \in KindSet |-> 0]

\* get_tetromino that reads the tetromino and leaves it in the bag.
get_tetromino_left_in_bag(b, index) ==
    [tetromino |-> b[index + 1], bag |-> b]

\* get_tetromino with a new bag made when one tetromino is left.
get_tetromino_refills_early(b, index) ==
    LET rest == PyPop(b, index)
    IN  [tetromino |-> b[index + 1],
         bag |-> IF Len(rest) <= 1 THEN new_bag ELSE rest]

\* SevenBag.get_tetromino with randrange(0, len) = index: the tetromino
\* taken and the bag left, lines 486-493.
get_tetromino(b, index) ==
    LET rest == PyPop(b, index)
    IN  [tetromino |-> b[index + 1],
         bag |-> IF rest = <<>> THEN new_bag ELSE rest]

----------------------------------------------------------------------------
\* main and Tetromino.process, step by step

NoTick == [start |-> <<>>, dropFrom |-> <<>>, dx |-> 0, up |-> FALSE,
           down |-> FALSE, ran |-> <<>>, dropSteps |-> 0]

Event(op, dx, flag) == [op |-> op, dx |-> dx, flag |-> flag]

\* The primed program state is the record s; an exception ends main.
Install(s, next) ==
    /\ playfieldContent' = s.content
    /\ topped_out' = s.topped
    /\ score' = s.score
    /\ position' = s.position
    /\ landed' = s.landed
    /\ lastLand' = s.lastLand
    /\ landCalls' = s.landCalls
    /\ pc' = IF s.raised THEN "crashed" ELSE next

\* Lines 507-509: the state main enters its loop with, the first tetromino
\* taken from a new bag.
Init ==
    /\ size = Vector(Width, Height)
    /\ playfieldContent = EmptyContent(size)
    /\ topped_out = FALSE
    /\ score = 0
    /\ \E index \in 0..(Len(new_bag) - 1) :
          /\ kind = get_tetromino(new_bag, index).tetromino
          /\ bag = get_tetromino(new_bag, index).bag
    /\ position = Spawn(kind, size)
    /\ landed = FALSE
    /\ pc = "process"
    /\ gravityDue = FALSE
    /\ nPieces = 1
    /\ ev = Event("init", 0, FALSE)
    /\ tick = NoTick
    /\ lastLand = NoLand
    /\ landCalls = 0
    /\ window = <<>>
    /\ nDraws = 0
    /\ InputIdle
    /\ since = NoDraws

\* ProcessMove without the test of line 354.
ProcessMoveLandedUntested ==
    /\ pc = "process"
    /\ gravityDue' \in BOOLEAN
    /\ \E dx \in {-1, 0, 1} :
          /\ Install(move_horizontally(Cur, dx, size), "rotate")
          /\ ev' = Event("move", dx, FALSE)
          /\ tick' = [NoTick EXCEPT !.start = position, !.dx = dx,
                                    !.ran = <<"move">>]
    /\ UNCHANGED <<size, kind, bag, nPieces, window, nDraws>>
    /\ UNCHANGED <<inputVars, since>>

\* Lines 520 and 354-357: should_do_gravity is evaluated and process is
\* called; the landed test, take_dx and _move_horizontally.
ProcessMove ==
    /\ pc = "process"
    /\ gravityDue' \in BOOLEAN
    /\ IF landed
       THEN /\ Install(Cur, "check")
            /\ ev' = Event("landed", 0, FALSE)
            /\ tick' = NoTick
       ELSE \E dx \in {-1, 0, 1} :
            /\ Install(move_horizontally(Cur, dx, size), "rotate")
            /\ ev' = Event("move", dx, FALSE)
            /\ tick' = [NoTick EXCEPT !.start = position, !.dx = dx,
                                      !.ran = <<"move">>]
    /\ UNCHANGED <<size, kind, bag, nPieces, window, nDraws>>
    /\ UNCHANGED <<inputVars, since>>

\* Lines 359-360: take_up and _rotate.
ProcessRotate ==
    /\ pc = "rotate"
    /\ \E up \in BOOLEAN :
          /\ Install(IF up THEN rotate(Cur, kind, size) ELSE Cur, "drop")
          /\ ev' = Event("rotate", 0, up)
          /\ tick' = [tick EXCEPT !.up = up,
                         !.ran = IF up THEN Append(@, "rotate") ELSE @]
    /\ UNCHANGED <<size, kind, bag, gravityDue, nPieces, window, nDraws>>
    /\ UNCHANGED <<inputVars, since>>

\* Line 362: take_down; with it _drop is entered, without it line 366 is next.
ProcessDrop ==
    /\ pc = "drop"
    /\ \E down \in BOOLEAN :
          /\ Install(Cur, IF down THEN "dropping" ELSE "gravity")
          /\ ev' = Event("down", 0, down)
          /\ tick' = [tick EXCEPT !.down = down, !.dropFrom = position,
                         !.ran = IF down THEN Append(@, "drop") ELSE @]
    /\ UNCHANGED <<size, kind, bag, gravityDue, nPieces, window, nDraws>>
    /\ UNCHANGED <<inputVars, since>>

\* DropLoop without the return of line 364: line 366 follows the drop.
DropLoopFallsThrough ==
    /\ pc = "dropping"
    /\ LET s == do_gravity(Cur, size)
       IN  Install(s, IF s.landed THEN "gravity" ELSE "dropping")
    /\ ev' = Event("fall", 0, TRUE)
    /\ tick' = [tick EXCEPT !.dropSteps = @ + 1]
    /\ UNCHANGED <<size, kind, bag, gravityDue, nPieces, window, nDraws>>
    /\ UNCHANGED <<inputVars, since>>

\* Lines 385-387 and 364: one turn of the loop of _drop; process returns
\* when the loop ends.
DropLoop ==
    /\ pc = "dropping"
    /\ LET s == do_gravity(Cur, size)
       IN  Install(s, IF s.landed THEN "check" ELSE "dropping")
    /\ ev' = Event("fall", 0, TRUE)
    /\ tick' = [tick EXCEPT !.dropSteps = @ + 1]
    /\ UNCHANGED <<size, kind, bag, gravityDue, nPieces, window, nDraws>>
    /\ UNCHANGED <<inputVars, since>>

\* Lines 366-367.
ProcessGravity ==
    /\ pc = "gravity"
    /\ Install(IF gravityDue THEN do_gravity(Cur, size) ELSE Cur, "check")
    /\ ev' = Event("gravity", 0, gravityDue)
    /\ tick' = [tick EXCEPT !.ran = IF gravityDue THEN Append(@, "gravity") ELSE @]
    /\ UNCHANGED <<size, kind, bag, gravityDue, nPieces, window, nDraws>>
    /\ UNCHANGED <<inputVars, since>>

\* Lines 521-523: the tetromino landed and the playfield is topped out.
MainGameOver ==
    /\ pc = "check"
    /\ landed /\ topped_out
    /\ pc' = "gameover"
    /\ ev' = Event("gameover", 0, FALSE)
    /\ tick' = NoTick
    /\ UNCHANGED <<size, playfieldContent, topped_out, score, kind, position,
                   landed, bag, gravityDue, nPieces, lastLand, landCalls,
                   window, nDraws>>
    /\ UNCHANGED <<inputVars, since>>

\* MainNextPiece without the test of line 522: the next tetromino is taken
\* whatever topped_out says.
MainNextPieceWhateverTop ==
    /\ pc = "check"
    /\ landed
    /\ nPieces < MaxPieces
    /\ \E index \in 0..(Len(bag) - 1) :
          /\ kind' = get_tetromino(bag, index).tetromino
          /\ bag' = get_tetromino(bag, index).bag
    /\ position' = Spawn(kind', size)
    /\ landed' = FALSE
    /\ nPieces' = nPieces + 1
    /\ landCalls' = 0
    /\ lastLand' = NoLand
    /\ gravityDue' = FALSE
    /\ pc' = "process"
    /\ ev' = Event("next", 0, FALSE)
    /\ tick' = NoTick
    /\ UNCHANGED <<size, playfieldContent, topped_out, score, window, nDraws>>
    /\ UNCHANGED <<inputVars, since>>

\* Lines 524-525, then 528-531: the next tetromino is taken from the bag and
\* the loop goes round.
MainNextPiece ==
    /\ pc = "check"
    /\ landed /\ ~topped_out
    /\ nPieces < MaxPieces
    /\ \E index \in 0..(Len(bag) - 1) :
          /\ kind' = get_tetromino(bag, index).tetromino
          /\ bag' = get_tetromino(bag, index).bag
    /\ position' = Spawn(kind', size)
    /\ landed' = FALSE
    /\ nPieces' = nPieces + 1
    /\ landCalls' = 0
    /\ lastLand' = NoLand
    /\ gravityDue' = FALSE
    /\ pc' = "process"
    /\ ev' = Event("next", 0, FALSE)
    /\ tick' = NoTick
    /\ UNCHANGED <<size, playfieldContent, topped_out, score, window, nDraws>>
    /\ UNCHANGED <<inputVars, since>>

\* Lines 521 and 528-531: the tetromino is still falling, the loop goes round.
MainContinue ==
    /\ pc = "check"
    /\ ~landed
    /\ gravityDue' = FALSE
    /\ pc' = "process"
    /\ ev' = Event("continue", 0, FALSE)
    /\ tick' = NoTick
    /\ UNCHANGED <<size, playfieldContent, topped_out, score, kind, position,
                   landed, bag, nPieces, lastLand, landCalls, window, nDraws>>
    /\ UNCHANGED <<inputVars, since>>

Next ==
    \/ ProcessMove
    \/ ProcessRotate
    \/ ProcessDrop
    \/ DropLoop
    \/ ProcessGravity
    \/ MainGameOver
    \/ MainNextPiece
    \/ MainContinue

Spec == Init /\ [][Next]_vars

----------------------------------------------------------------------------
\* SevenBag alone: get_tetromino called MaxDraws times on a new bag.

InitBag ==
    /\ size = Vector(Width, Height)
    /\ playfieldContent = EmptyContent(size)
    /\ topped_out = FALSE
    /\ score = 0
    /\ kind = "I"
    /\ position = <<>>
    /\ landed = FALSE
    /\ bag = new_bag
    /\ pc = "bag"
    /\ gravityDue = FALSE
    /\ nPieces = 0
    /\ ev = Event("init", 0, FALSE)
    /\ tick = NoTick
    /\ lastLand = NoLand
    /\ landCalls = 0
    /\ window = <<>>
    /\ nDraws = 0
    /\ InputIdle
    /\ since = NoDraws

\* One call of get_tetromino, lines 486-493.
BagDraw ==
    /\ pc = "bag"
    /\ nDraws < MaxDraws
    /\ \E index \in 0..(Len(bag) - 1) :
          LET r == get_tetromino(bag, index)
          IN  /\ kind' = r.tetromino
              /\ bag' = r.bag
              /\ window' = IF Len(window) = Len(Kinds) THEN <<r.tetromino>>
                           ELSE Append(window, r.tetromino)
    /\ nDraws' = nDraws + 1
    /\ ev' = Event("draw", 0, FALSE)
    /\ UNCHANGED <<size, playfieldContent, topped_out, score, position, landed,
                   pc, gravityDue, nPieces, tick, lastLand, landCalls>>
    /\ UNCHANGED <<inputVars, since>>

NextBag == BagDraw

SpecBag == InitBag /\ [][NextBag]_vars

\* get_tetromino called without end, with the draws after the last draw of
\* each kind for history.
GapDraw ==
    /\ pc = "bag"
    /\ \E index \in 0..(Len(bag) - 1) :
          LET r == get_tetromino(bag, index)
          IN  /\ kind' = r.tetromino
              /\ bag' = r.bag
              /\ since' = [k \in KindSet |->
                             IF k = r.tetromino THEN 0
                             ELSE IF since[k] < MaxGap THEN since[k] + 1
                             ELSE since[k]]
    /\ ev' = Event("draw", 0, FALSE)
    /\ UNCHANGED <<size, playfieldContent, topped_out, score, position, landed,
                   pc, gravityDue, nPieces, tick, lastLand, landCalls, window,
                   nDraws, inputVars>>

NextGap == GapDraw

SpecGap == InitBag /\ [][NextGap]_vars

----------------------------------------------------------------------------
\* Playfield.land alone: one call for any placement of a tetromino and any
\* matrix without a full row in which line 394 finds the tetromino resting.

RECURSIVE RotateTimes(_, _)
RotateTimes(vectors, n) ==
    IF n = 0 THEN vectors
    ELSE RotateTimes(get_rotated90_around_anchor(vectors), n - 1)

\* The cell sequences a tetromino of kind k takes by rotations and moves
\* that keep it inside the columns and above the floor.
Placements(k, sz) ==
    LET turns == IF k = "O" THEN {0} ELSE 0..3
        all == {translate_all(RotateTimes(Spawn(k, sz), n), Vector(tx, ty)) :
                   n \in turns, tx \in (0 - sz.x)..sz.x, ty \in 0..sz.y}
    IN  {p \in all : \A i \in 1..Len(p) :
                        p[i].x >= 0 /\ p[i].x < sz.x /\ p[i].y < sz.y}

LandSize == Vector(LandWidth, LandHeight)

LandPlacements == [k \in KindSet |-> Placements(k, LandSize)]

\* The rows of a matrix of size sz that are not full.
OpenRows(sz) == {row \in [1..sz.x -> BOOLEAN] : HitCount(row) < sz.x}

LandMatrices == [1..LandSize.y -> OpenRows(LandSize)]

\* land reads and writes only the rows its vectors index and moves the
\* others: those are left empty or given one cell, which tells them apart.
PlainRows(sz) == {EmptyRow(sz), [x \in 1..sz.x |-> x = 1]}

RowIndexed(vectors, r, sz) ==
    \E i \in 1..Len(vectors) : PyIndex(vectors[i].y, sz.y) + 1 = r

InitLand ==
    /\ size = LandSize
    /\ topped_out = FALSE
    /\ score = 0
    /\ kind \in KindSet
    /\ position \in LandPlacements[kind]
    /\ playfieldContent \in {m \in LandMatrices :
          /\ \A r \in 1..size.y :
                RowIndexed(position, r, size) \/ m[r] \in PlainRows(size)
          /\ FirstStop([i \in 1..Len(position) |->
                 RestsAt(m, size, position[i])]) = "land"}
    /\ landed = FALSE
    /\ bag = new_bag
    /\ pc = "land"
    /\ gravityDue = FALSE
    /\ nPieces = 1
    /\ ev = Event("init", 0, FALSE)
    /\ tick = NoTick
    /\ lastLand = NoLand
    /\ landCalls = 0
    /\ window = <<>>
    /\ nDraws = 0
    /\ InputIdle
    /\ since = NoDraws

\* Lines 395-396: landed is set and Playfield.land is called with the
\* tetromino's vectors.
LandCall ==
    /\ pc = "land"
    /\ Install(land([Cur EXCEPT !.landed = TRUE], position, size), "locked")
    /\ ev' = Event("land", 0, FALSE)
    /\ UNCHANGED <<size, kind, bag, gravityDue, nPieces, tick, window, nDraws>>
    /\ UNCHANGED <<inputVars, since>>

NextLand == LandCall

SpecLand == InitLand /\ [][NextLand]_vars

\* The game and the single calls of land together.
SpecScore == (Init \/ InitLand) /\ [][Next \/ NextLand]_vars

----------------------------------------------------------------------------
\* Tetromino.process alone: called any number of times on one tetromino, in
\* any placement on a playfield whose rows are plain, with any commands.

ProcessMatrices == [1..LandSize.y -> PlainRows(LandSize)]

InitProcess ==
    /\ size = LandSize
    /\ playfieldContent \in ProcessMatrices
    /\ topped_out = FALSE
    /\ score = 0
    /\ kind \in KindSet
    /\ position \in LandPlacements[kind]
    /\ landed = FALSE
    /\ bag = new_bag
    /\ pc = "process"
    /\ gravityDue = FALSE
    /\ nPieces = 1
    /\ ev = Event("init", 0, FALSE)
    /\ tick = NoTick
    /\ lastLand = NoLand
    /\ landCalls = 0
    /\ window = <<>>
    /\ nDraws = 0
    /\ InputIdle
    /\ since = NoDraws

\* process has returned and is called on the same tetromino once more.
ProcessAgain ==
    /\ pc = "check"
    /\ pc' = "process"
    /\ ev' = Event("again", 0, FALSE)
    /\ tick' = NoTick
    /\ UNCHANGED <<size, playfieldContent, topped_out, score, kind, position,
                   landed, bag, gravityDue, nPieces, lastLand, landCalls,
                   window, nDraws>>
    /\ UNCHANGED <<inputVars, since>>

NextProcess ==
    \/ ProcessMove
    \/ ProcessRotate
    \/ ProcessDrop
    \/ DropLoop
    \/ ProcessGravity
    \/ ProcessAgain

SpecProcess == InitProcess /\ [][NextProcess]_vars

----------------------------------------------------------------------------
\* Playfield.land called for two tetrominos in turn on one playfield, whatever
\* topped_out says after the first, and the game: the states a playfield
\* takes in main and those it takes when land is called past a top-out.

InitLock ==
    /\ playfieldContent \in ProcessMatrices
    /\ InitLand

\* Another tetromino comes to rest on the playfield land has left.
LandNext ==
    /\ pc = "locked"
    /\ nPieces = 1
    /\ kind' \in KindSet
    /\ position' \in {p \in LandPlacements[kind'] :
          FirstStop([i \in 1..Len(p) |->
              RestsAt(playfieldContent, size, p[i])]) = "land"}
    /\ landed' = FALSE
    /\ landCalls' = 0
    /\ nPieces' = nPieces + 1
    /\ pc' = "land"
    /\ ev' = Event("next", 0, FALSE)
    /\ UNCHANGED <<size, playfieldContent, topped_out, score, bag, gravityDue,
                   tick, lastLand, window, nDraws>>
    /\ UNCHANGED <<inputVars, since>>

NextLock == LandCall \/ LandNext

SpecLocks == (Init \/ InitLock) /\ [][Next \/ NextLock]_vars

----------------------------------------------------------------------------
\* Vectors.get_rotated90_around_anchor applied over and over to any sequence
\* of points, next to the calls of process, whose rotate commands reach
\* _rotate of every class.

Points == {Vector(x, y) : x \in (0 - MaxCoord)..MaxCoord,
                          y \in (0 - MaxCoord)..MaxCoord}

PointSequences == UNION {[1..n -> Points] : n \in 0..MaxPoints}

InitVectors ==
    /\ size = LandSize
    /\ playfieldContent = EmptyContent(size)
    /\ topped_out = FALSE
    /\ score = 0
    /\ kind = "I"
    /\ position \in PointSequences
    /\ landed = FALSE
    /\ bag = new_bag
    /\ pc = "vectors"
    /\ gravityDue = FALSE
    /\ nPieces = 0
    /\ ev = Event("init", 0, FALSE)
    /\ tick = NoTick
    /\ lastLand = NoLand
    /\ landCalls = 0
    /\ window = <<>>
    /\ nDraws = 0
    /\ InputIdle
    /\ since = NoDraws

\* self.vectors becomes the result of get_rotated90_around_anchor.
Turn ==
    /\ pc = "vectors"
    /\ position' = get_rotated90_around_anchor(position)
    /\ ev' = Event("turn", 0, FALSE)
    /\ UNCHANGED <<size, playfieldContent, topped_out, score, kind, landed,
                   bag, pc, gravityDue, nPieces, tick, lastLand, landCalls,
                   window, nDraws>>
    /\ UNCHANGED <<inputVars, since>>

SpecRotate == (InitVectors \/ InitProcess) /\ [][Turn \/ NextProcess]_vars

----------------------------------------------------------------------------
\* Score.add alone, called with any argument, next to the game and the
\* single calls of land, where land is its caller.

InitAdd ==
    /\ size = LandSize
    /\ playfieldContent = EmptyContent(size)
    /\ topped_out = FALSE
    /\ score = 0
    /\ kind = "I"
    /\ position = <<>>
    /\ landed = FALSE
    /\ bag = new_bag
    /\ pc = "score"
    /\ gravityDue = FALSE
    /\ nPieces = 0
    /\ ev = Event("init", 0, FALSE)
    /\ tick = NoTick
    /\ lastLand = NoLand
    /\ landCalls = 0
    /\ window = <<>>
    /\ nDraws = 0
    /\ InputIdle
    /\ since = NoDraws

\* One call of Score.add, lines 238-250; ValueError ends the caller.
AddCall ==
    /\ pc = "score"
    /\ score < MaxScore
    /\ \E lines \in (0 - MaxLines)..MaxLines :
          /\ score' = ScoreAdd(score, lines)
          /\ pc' = IF ScoreAddRaises(lines) THEN "crashed" ELSE "score"
          /\ ev' = Event("add", lines, ScoreAddRaises(lines))
    /\ UNCHANGED <<size, playfieldContent, topped_out, kind, position, landed,
                   bag, gravityDue, nPieces, tick, lastLand, landCalls,
                   window, nDraws>>
    /\ UNCHANGED <<inputVars, since>>

NextAdd == AddCall

SpecAdd == (Init \/ InitLand \/ InitAdd) /\ [][Next \/ NextLand \/ NextAdd]_vars

----------------------------------------------------------------------------
\* The InputController alone: update and the take_* methods called in any
\* order while the keys go down and up, also between the two loops of update.

InitInput ==
    /\ size = LandSize
    /\ playfieldContent = EmptyContent(size)
    /\ topped_out = FALSE
    /\ score = 0
    /\ kind = "I"
    /\ position = <<>>
    /\ landed = FALSE
    /\ bag = new_bag
    /\ pc = "input"
    /\ gravityDue = FALSE
    /\ nPieces = 0
    /\ ev = Event("init", 0, FALSE)
    /\ tick = NoTick
    /\ lastLand = NoLand
    /\ landCalls = 0
    /\ window = <<>>
    /\ nDraws = 0
    /\ keys = [k \in KeyNames |-> 0]
    /\ pressed \in [KeyNames -> BOOLEAN]
    /\ taken = {}
    /\ trail = [k \in KeyNames |-> NoTrail]
    /\ since = NoDraws

gameVars == <<size, playfieldContent, topped_out, score, kind, position,
              landed, bag, pc, gravityDue, nPieces, tick, lastLand, landCalls,
              window, nDraws, since>>

TrailRead(t, read1, read2) ==
    [inHold |-> IF ~read1 /\ read2 THEN 0 ELSE t.inHold,
     seen   |-> CASE t.seen = "reported" /\ (~read1 \/ ~read2) -> "released"
                  [] t.seen = "released" /\ (read1 \/ read2)   -> "pressed"
                  [] OTHER                                     -> t.seen,
     fresh  |-> t.fresh \/ (~read1 /\ ~read2),
     want   |-> t.want \/ (t.fresh /\ read1 /\ read2)]

TrailReport(t, held) ==
    [inHold |-> IF held /\ t.inHold < 2 THEN t.inHold + 1 ELSE t.inHold,
     seen   |-> "reported",
     fresh  |-> FALSE,
     want   |-> FALSE]

\* A key goes down or up between two calls.  ev tells the take_* calls
\* apart; this step and update leave the same mark in it.
KeyChange ==
    /\ pc = "input"
    /\ \E k \in KeyNames :
          /\ pressed' = [pressed EXCEPT ![k] = ~@]
          /\ trail' = [trail EXCEPT ![k].inHold = IF pressed[k] THEN @ ELSE 0]
    /\ ev' = Event("keys", 0, FALSE)
    /\ taken' = {}
    /\ UNCHANGED <<gameVars, keys>>

\* What the second loop of update may read when the first has read read1:
\* one key may have changed in between.
SecondReads(read1) ==
    {read1} \cup {[read1 EXCEPT ![k] = ~@] : k \in KeyNames}

\* One call of update.
Update ==
    /\ pc = "input"
    /\ \E read2 \in SecondReads(pressed) :
          /\ keys' = update(keys, pressed, read2)
          /\ pressed' = read2
          /\ trail' = [k \in KeyNames |-> TrailRead(trail[k], pressed[k], read2[k])]
    /\ taken' = {}
    /\ ev' = Event("keys", 0, FALSE)
    /\ UNCHANGED gameVars

Reported(ks) ==
    /\ taken' = ks
    /\ trail' = [k \in KeyNames |->
                    IF k \in ks THEN TrailReport(trail[k], pressed[k]) ELSE trail[k]]

TakeDx ==
    /\ pc = "input"
    /\ LET r == take_dx(keys)
       IN  /\ keys' = r.keys
           /\ ev' = Event("take_dx", r.dx, FALSE)
           /\ Reported({k \in {"left"} : r.left # 0} \cup
                       {k \in {"right"} : r.right # 0})
    /\ UNCHANGED <<gameVars, pressed>>

TakeUp ==
    /\ pc = "input"
    /\ LET r == take_up(keys)
       IN  /\ keys' = r.keys
           /\ ev' = Event("take_up", 0, r.value)
           /\ Reported({k \in {"up"} : r.value})
    /\ UNCHANGED <<gameVars, pressed>>

TakeDown ==
    /\ pc = "input"
    /\ LET r == take_down(keys)
       IN  /\ keys' = r.keys
           /\ ev' = Event("take_down", 0, r.value)
           /\ Reported({k \in {"down"} : r.value})
    /\ UNCHANGED <<gameVars, pressed>>

NextInput ==
    \/ KeyChange
    \/ Update
    \/ TakeDx
    \/ TakeUp
    \/ TakeDown

SpecInput == InitInput /\ [][NextInput]_vars

----------------------------------------------------------------------------
\* Notions the properties are stated with

FullRow(row) == \A x \in 1..Len(row) : row[x]

\* The grid cell (x, y), for a coordinate inside the grid.
InGrid(v) == v.x >= 0 /\ v.x < size.x /\ v.y >= 0 /\ v.y < size.y

Occupied(content, v) == InGrid(v) /\ content[v.y + 1][v.x + 1]

\* content with the cells of vectors occupied as well.
WithCells(content, vectors) ==
    [r \in 1..Len(content) |-> [c \in 1..Len(content[r]) |->
        content[r][c] \/ \E i \in 1..Len(vectors) : vectors[i] = Vector(c - 1, r - 1)]]

\* The matrix the current call of process started with: land is the only
\* writer and lastLand is cleared when a tetromino is taken from the bag.
TickContent == IF lastLand.called THEN lastLand.before ELSE playfieldContent

\* Some cell is on the bottom row or directly above an occupied cell.
Resting(content, vectors) ==
    \E i \in 1..Len(vectors) :
        \/ vectors[i].y = size.y - 1
        \/ Occupied(content, add_xy(vectors[i], 0, 1))

----------------------------------------------------------------------------
\* C1: counted from the construction of the bag, draws 7n+1 .. 7n+7 hold each
\* of the seven kinds exactly once, and the bag is never empty between draws.
C1_BagWindow ==
    pc = "bag" =>
        /\ bag # <<>>
        /\ Len(window) = IF nDraws = 0 THEN 0 ELSE ((nDraws - 1) % 7) + 1
        /\ \A i \in 1..Len(window) : window[i] \in KindSet
        /\ \A i, j \in 1..Len(window) : window[i] = window[j] => i = j
        /\ Len(window) = 7 => {window[i] : i \in 1..7} = KindSet

C1_Witness == pc = "bag" /\ nDraws >= 14 /\ Len(window) = 7

\* C2: after land the matrix is k empty rows followed by the rows of the
\* matrix with the tetromino written in that are not full, in their order,
\* k being the number of full rows of that matrix; for a tetromino inside the
\* grid the matrix written is the matrix before plus the tetromino's cells.
C2_Compaction ==
    lastLand.called =>
        LET w    == lastLand.written
            keep == SelectSeq(w, LAMBDA row : ~FullRow(row))
            k    == Len(w) - Len(keep)
        IN  /\ playfieldContent = [i \in 1..k |-> EmptyRow(size)] \o keep
            /\ lastLand.removed = k
            /\ (\A i \in 1..Len(lastLand.vectors) : InGrid(lastLand.vectors[i]))
                   => w = WithCells(lastLand.before, lastLand.vectors)

\* Two full rows that are not adjacent are removed, and the row between
\* them, which holds a cell, stays.
C2_Witness ==
    /\ lastLand.called
    /\ lastLand.removed >= 2
    /\ \E a, b, c \in 1..size.y :
          /\ a < b /\ b < c
          /\ FullRow(lastLand.written[a])
          /\ ~FullRow(lastLand.written[b]) /\ HitCount(lastLand.written[b]) > 0
          /\ FullRow(lastLand.written[c])

\* The award of the scoring table for k removed rows.
Award(k) == <<0, 100, 300, 500, 800>>[k + 1]

\* C3: a call of land that removes k rows adds 0, 100, 300, 500, 800 to the
\* score for k = 0 .. 4; no other step changes the score, so it never
\* decreases.
C3_Score ==
    [][/\ score' >= score
       /\ IF landCalls' = landCalls + 1
          THEN /\ lastLand'.called /\ lastLand'.removed \in 0..4
               /\ score' = score + Award(lastLand'.removed)
          ELSE score' = score]_vars

C3_Witness == lastLand.called /\ lastLand.removed = 4 /\ score = 800


\* A gravity step is taken on a falling tetromino whose lowest cell is on the
\* bottom row: line 367, or a turn of the loop of _drop.
GravityAtFloor ==
    /\ ~landed
    /\ \/ pc = "gravity" /\ gravityDue
       \/ pc = "dropping"
    /\ \E i \in 1..Len(position) : position[i].y = size.y - 1
    /\ \A i \in 1..Len(position) : position[i].y <= size.y - 1

\* C4 as stated: on that step the tetromino lands where it is, and right
\* after the step the grid is occupied at each of its cells.
C4_CellsStayInGrid ==
    [][GravityAtFloor =>
          /\ landed' /\ position' = position
          /\ \A i \in 1..Len(position) : Occupied(playfieldContent', position[i])]_vars

\* C4, amended: on that step the tetromino lands where it is; the matrix
\* land writes is the grid before plus its cells, and it is the grid after
\* the step when the lock removes no row.
C4_LandsInPlace ==
    [][GravityAtFloor =>
          /\ landed' /\ position' = position
          /\ lastLand'.called
          /\ lastLand'.written = WithCells(playfieldContent, position)
          /\ lastLand'.removed = 0 => playfieldContent' = lastLand'.written]_vars

C4_Witness ==
    /\ landed /\ pc = "check"
    /\ \E i \in 1..Len(position) : position[i].y = size.y - 1
    /\ lastLand.called /\ lastLand.removed = 0
    /\ \A i \in 1..Len(position) : Occupied(playfieldContent, position[i])

\* Every cell has 0 <= x < width, and every cell with y >= 0 is an empty
\* cell of the grid.
FreeBelowTop(content, vectors) ==
    \A i \in 1..Len(vectors) :
        /\ vectors[i].x >= 0 /\ vectors[i].x < size.x
        /\ vectors[i].y >= 0 => InGrid(vectors[i]) /\ ~Occupied(content, vectors[i])

\* C5: a move or a rotation is accepted when its cells are within the
\* columns and those with y >= 0 are on empty grid cells, whatever the rows
\* of the grid hold: a cell with negative y is never occupied.
C5_NegativeYFree ==
    [][/\ (pc = "process" /\ ~landed) =>
             LET target == translate_all(position, Vector(ev'.dx, 0))
             IN  FreeBelowTop(playfieldContent, target) => position' = target
       /\ (pc = "rotate" /\ ev'.flag /\ kind # "O") =>
             LET target == get_rotated90_around_anchor(position)
             IN  FreeBelowTop(playfieldContent, target) => position' = target]_vars

\* Some rotated cell is outside the columns, below the floor or occupied.
RotationBlocked(content, vectors) ==
    \E i \in 1..Len(vectors) :
        \/ vectors[i].x < 0 \/ vectors[i].x >= size.x
        \/ vectors[i].y >= size.y
        \/ Occupied(content, vectors[i])

\* C6: a rotation with a cell outside the columns, below the floor or on an
\* occupied cell is discarded, the tetromino keeps its cells and the tick
\* goes on; no rotation ends in an exception.
C6_RotateNeverRaises ==
    [][pc = "rotate" =>
          /\ pc' = "drop"
          /\ (ev'.flag /\ RotationBlocked(playfieldContent,
                              get_rotated90_around_anchor(position)))
                => position' = position]_vars

\* Some target cell is outside the columns or is an occupied grid cell.
MoveBlocked(content, vectors, dx) ==
    \E i \in 1..Len(vectors) :
        \/ vectors[i].x + dx < 0 \/ vectors[i].x + dx >= size.x
        \/ Occupied(content, add_xy(vectors[i], dx, 0))

\* C7: a horizontal move by dx leaves every cell in place when some target
\* cell is outside the columns or occupied, and otherwise changes every x by
\* dx and no y; the grid is unchanged either way.
C7_MoveAllOrNothing ==
    [][(pc = "process" /\ ~landed) =>
          /\ playfieldContent' = playfieldContent
          /\ position' = IF MoveBlocked(playfieldContent, position, ev'.dx)
                         THEN position
                         ELSE [i \in 1..Len(position) |->
                                  Vector(position[i].x + ev'.dx, position[i].y)]]_vars


\* The record process starts from in this tick, and what the move alone and
\* then the rotation make of it.
TickStart == [Cur EXCEPT !.content = TickContent, !.position = tick.start,
                         !.landed = FALSE]

AfterMove == move_horizontally(TickStart, tick.dx, size)

AfterRotate == IF tick.up THEN rotate(AfterMove, kind, size) ELSE AfterMove

\* The steps of ran are in the order move, rotate, drop, gravity.
InOrder(ran) ==
    LET rank(step) == CASE step = "move" -> 1 [] step = "rotate" -> 2
                        [] step = "drop" -> 3 [] step = "gravity" -> 4
    IN  \A i, j \in 1..Len(ran) : i < j => rank(ran[i]) < rank(ran[j])

\* C8: when process has returned, its commands have acted in the order move,
\* rotate, drop, gravity: the rotation was validated at the position the move
\* left, the drop fell from the position move and rotation left, and with a
\* drop command no gravity step was taken, due or not.
C8_CommandOrder ==
    (pc = "check" /\ tick.start # <<>>) =>
        /\ InOrder(tick.ran)
        /\ tick.ran[1] = "move"
        /\ tick.up <=> \E i \in 1..Len(tick.ran) : tick.ran[i] = "rotate"
        /\ IF tick.down
           THEN /\ tick.ran[Len(tick.ran)] = "drop"
                /\ tick.dropFrom = AfterRotate.position
                /\ landed
                /\ \A i \in 1..Len(position) :
                      /\ position[i].x = tick.dropFrom[i].x
                      /\ position[i].y >= tick.dropFrom[i].y
           ELSE IF gravityDue
           THEN /\ tick.ran[Len(tick.ran)] = "gravity"
                /\ position = do_gravity(AfterRotate, size).position
                /\ landed = do_gravity(AfterRotate, size).landed
           ELSE /\ position = AfterRotate.position
                /\ ~landed

\* A tick with move, rotate and drop, gravity due, in which the move made
\* room for a rotation that would have been refused before it.
C8_Witness ==
    /\ pc = "check" /\ tick.start # <<>>
    /\ tick.dx # 0 /\ tick.up /\ tick.down /\ gravityDue
    /\ AfterMove.position # tick.start
    /\ AfterRotate.position # AfterMove.position
    /\ rotate(TickStart, kind, size).position = tick.start
    /\ tick.dropSteps >= 2

\* C9: a hard drop ends with landed true after at most height gravity
\* steps, in the columns it started in, at the first position down from its
\* start where a cell is on the bottom row or directly above an occupied cell.
C9_HardDrop ==
    /\ pc = "dropping" => ~landed /\ tick.dropSteps < size.y
    /\ (pc = "check" /\ tick.down) =>
          /\ landed
          /\ tick.dropSteps >= 1 /\ tick.dropSteps <= size.y
          /\ position = translate_all(tick.dropFrom, Vector(0, tick.dropSteps - 1))
          /\ Resting(TickContent, position)
          /\ \A d \in 0..(tick.dropSteps - 2) :
                ~Resting(TickContent, translate_all(tick.dropFrom, Vector(0, d)))

\* A drop of several rows that ends on an occupied cell, above the floor.
C9_Witness ==
    /\ pc = "check" /\ tick.down /\ landed
    /\ tick.dropSteps >= 3
    /\ \A i \in 1..Len(position) : position[i].y < size.y - 1

\* C10: land is called in exactly the steps in which landed turns true, so
\* once for a tetromino and at most once in a tick; a step without a call of
\* land leaves the matrix as it is.
C10_OneLock ==
    [][/\ landCalls' = (IF landed' THEN 1 ELSE 0)
       /\ (landCalls' = landCalls + 1) <=> (~landed /\ landed')
       /\ (landCalls' # landCalls + 1) => playfieldContent' = playfieldContent]_vars

\* A hard drop of several gravity steps has locked the tetromino once.
C10_Witness ==
    /\ pc = "check" /\ tick.down /\ tick.dropSteps >= 3
    /\ landed /\ landCalls = 1 /\ lastLand.called

----------------------------------------------------------------------------
\* C11: once landed is true it stays true, and every step of a later call of
\* process on that tetromino, whatever should_do_gravity and the commands
\* are, leaves its position, the matrix, the score and topped_out as they
\* were.
C11_LandedTerminal ==
    [][landed => /\ landed'
                 /\ position' = position
                 /\ playfieldContent' = playfieldContent
                 /\ score' = score
                 /\ topped_out' = topped_out]_vars

\* process has been called on a landed tetromino with gravity due and has
\* returned.
C11_Witness ==
    /\ pc = "check" /\ landed /\ ev.op = "landed" /\ gravityDue
    /\ lastLand.called

----------------------------------------------------------------------------
\* C12: after a step, and so after every lock and between ticks, a top row
\* with an occupied cell means topped_out is true, and topped_out once true
\* is true after every later step.
C12_ToppedOut ==
    [][/\ TopRowHit(playfieldContent') => topped_out'
       /\ topped_out => topped_out']_vars

\* land has been called on a topped-out playfield and has left the top row
\* empty: topped_out is still true.
C12_Witness ==
    /\ pc = "locked" /\ nPieces = 2 /\ lastLand.called
    /\ TopRowHit(lastLand.before)
    /\ ~TopRowHit(playfieldContent)
    /\ topped_out

----------------------------------------------------------------------------
\* C13: in every reachable state the matrix has size.y rows of size.x cells
\* each, whatever number of rows the locks have removed.
C13_Dimensions ==
    /\ Len(playfieldContent) = size.y
    /\ \A r \in 1..Len(playfieldContent) : Len(playfieldContent[r]) = size.x

\* The second lock on a playfield has removed several rows.
C13_Witness ==
    /\ pc = "locked" /\ nPieces = 2
    /\ lastLand.called /\ lastLand.removed >= 2
    /\ lastLand.before # EmptyContent(size)

----------------------------------------------------------------------------
\* C14: get_rotated90_around_anchor applied four times gives back the points
\* it started from, in their order; one application keeps the first point;
\* a rotate command given to an O tetromino leaves its cells as they are,
\* in every call of process.
C14_RotationLaw ==
    [][/\ RotateTimes(position, 4) = position
       /\ ev'.op = "turn" =>
             /\ Len(position') = Len(position)
             /\ position # <<>> => position'[1] = position[1]
       /\ (kind = "O" /\ ev'.op = "rotate") => position' = position]_vars

\* A quarter turn has moved a point that lies off the anchor, itself off the
\* origin.
C14_Witness ==
    /\ pc = "vectors" /\ ev.op = "turn"
    /\ Len(position) = MaxPoints
    /\ position[1] # Vector(0, 0)
    /\ position[2] # position[1]
    /\ RotateTimes(position, 1) # position

----------------------------------------------------------------------------
\* C15: a call of Score.add with lines outside 0..4 raises and leaves the
\* score as it was, a call with lines in 0..4 does not raise; and land calls
\* it with the number of rows it removed, which is in 0..4, so that no
\* exception leaves a call of land.
C15_InvalidLines ==
    [][/\ ev'.op = "add" =>
             /\ ev'.flag <=> ev'.dx \notin 0..4
             /\ ev'.flag => score' = score /\ pc' = "crashed"
             /\ ~ev'.flag => pc' # "crashed"
       /\ lastLand'.called => lastLand'.removed \in 0..4
       /\ landCalls' = landCalls + 1 => lastLand'.called /\ pc' # "crashed"]_vars

\* Score.add has raised for a negative argument on a score that earlier
\* calls built up.
C15_Witness ==
    /\ ev.op = "add" /\ ev.flag /\ ev.dx < 0
    /\ pc = "crashed" /\ score > 0

----------------------------------------------------------------------------
\* C16: for each key, in any order of update and take_* calls: while the key
\* stays down it is reported at most once; it is reported only when, since
\* its last report, an update has read it released and a later update has
\* read it pressed; and the take_* call after an update has read it released
\* and an update has then read it pressed does report it.
AskedBy(op) ==
    CASE op = "take_dx"   -> {"left", "right"}
      [] op = "take_up"   -> {"up"}
      [] op = "take_down" -> {"down"}
      [] OTHER            -> {}

C16_EdgeDetection ==
    [][/\ taken' \subseteq AskedBy(ev'.op)
       /\ \A k \in taken' : trail[k].seen = "pressed"
       /\ \A k \in KeyNames : trail'[k].inHold <= 1
       /\ \A k \in AskedBy(ev'.op) : trail[k].want => k \in taken']_vars

\* take_up is called again while the up key is still down after its report,
\* and returns False.
C16_Witness ==
    /\ ev.op = "take_up" /\ ~ev.flag
    /\ pressed["up"] /\ keys["up"] = 2
    /\ trail["up"].inHold = 1

----------------------------------------------------------------------------
\* C17: main takes a tetromino from the bag only when the current one has
\* landed and topped_out is false; once a tetromino has landed with
\* topped_out true no tetromino is taken, process is not called, and the
\* matrix and the score stay as they are.
C17_GameOverTerminal ==
    [][/\ (nPieces' # nPieces \/ bag' # bag \/ kind' # kind) =>
             landed /\ ~topped_out
       /\ (landed /\ topped_out) =>
             /\ pc' = "gameover"
             /\ UNCHANGED <<playfieldContent, score, topped_out, bag, nPieces,
                            kind, position, landed>>]_vars

\* The game is over after a tetromino taken from the bag in the loop of main
\* has landed.
C17_Witness ==
    /\ pc = "gameover" /\ landed /\ topped_out
    /\ nPieces = MaxPieces

----------------------------------------------------------------------------
\* C18: no cell of the falling tetromino lies on an occupied cell of the
\* matrix, from the state in which it is taken from the bag on; and land is
\* not given a cell that is occupied already.
C18_NoOverlap ==
    /\ ~landed =>
          \A i \in 1..Len(position) : ~Occupied(playfieldContent, position[i])
    /\ lastLand.called =>
          \A i \in 1..Len(lastLand.vectors) :
              ~Occupied(lastLand.before, lastLand.vectors[i])

----------------------------------------------------------------------------
\* C19: no row of the matrix is full in any reachable state: the lock that
\* fills a row removes it before it returns.
C19_NoFullRow ==
    \A r \in 1..Len(playfieldContent) : ~FullRow(playfieldContent[r])

\* In the game, a lock has filled a row and removed it, and cells are left.
C19_Witness ==
    /\ pc = "check" /\ landed
    /\ lastLand.called /\ lastLand.removed >= 1
    /\ \E r \in 1..Len(lastLand.written) : FullRow(lastLand.written[r])
    /\ playfieldContent # EmptyContent(size)

----------------------------------------------------------------------------
\* C20: after a draw of a kind, and after the construction of the bag, at
\* most 12 draws of other kinds come before that kind is drawn: no 13 draws
\* in a row are without one of the kinds.
C20_GapTwelve ==
    \A k \in KindSet : since[k] <= 12

\* A kind drawn first from one bag and last from the next: 12 draws lie
\* between, and it is the one left in the bag.
C20_Witness ==
    \E k \in KindSet : since[k] = 12 /\ bag = <<k>>

====
